---- MODULE Spec2Model ----
(***************************************************************************)
(* Model of the meeting-notification decision engine of ms-teams-notifier: *)
(* MeetingMonitor (poll scheduler + meeting selector), NotificationManager *)
(* (notification state machine) and the pure helper isInRingWindow.        *)
(*                                                                         *)
(* Time is in milliseconds, as in the source.  The wall clock of the state *)
(* machine moves in steps of TickMs, or to the deadline of the armed       *)
(* notification timeout when that comes first.  Poll and insert-retry      *)
(* timers run on a scale of seconds, far below TickMs: they fire at any    *)
(* moment while pending.                                                   *)
(***************************************************************************)
EXTENDS Integers, Sequences, FiniteSets, TLC

\* ---------------------------------------------------------------- bounds
TickMs == 21600000
MaxTicks == 3
MaxInFlight == 1
ProbeMaxBatch == 3
ProbeMaxTime == 12
ProbeMaxDuration == 2
MaxArrivals == 2
MaxOverlap == 2

\* ------------------------------------------------------------- constants
NOTIFY_BEFORE_EVENT_START_MS == 180 * 2 * 60 * 1000
NOTIFY_AFTER_EVENT_START_MS == 180 * 2 * 60 * 1000
maxRetries == 5
retryInterval == 1000

\* ------------------------------------------------------------ data model
\* null reference to a CalendarEvent
NoEvent == [objectId |-> "null", startTime |-> 0, isAllDayEvent |-> FALSE,
            isCancelled |-> FALSE, skypeTeamsMeetingUrl |-> FALSE]

\* a CalendarEvent; skypeTeamsMeetingUrl is TRUE when the URL is a non-empty string
CalendarEvent(id, start, allDay, cancelled, url) ==
  [objectId |-> id, startTime |-> start, isAllDayEvent |-> allDay,
   isCancelled |-> cancelled, skypeTeamsMeetingUrl |-> url]

\* the calendar the Event Source answers from
Calendar ==
  { CalendarEvent("A", 1 * TickMs, FALSE, FALSE, TRUE),
    CalendarEvent("B", 2 * TickMs, FALSE, FALSE, FALSE),
    CalendarEvent("C", 1 * TickMs, TRUE, FALSE, TRUE),
    CalendarEvent("D", 2 * TickMs, FALSE, TRUE, TRUE) }

\* the batches getEvents can resolve with: lists of events with distinct identifiers
BatchesOf(universe, maxLen) ==
  { s \in UNION { [1..n -> universe] : n \in 0..maxLen } :
      \A i, j \in 1..Len(s) : i /= j => s[i].objectId /= s[j].objectId }

\* the events of a set, latest start first (the order the selector has to undo)
RECURSIVE LatestFirst(_)
LatestFirst(events) ==
  IF events = {} THEN <<>>
  ELSE LET e == CHOOSE x \in events : \A y \in events : y.startTime <= x.startTime
       IN  <<e>> \o LatestFirst(events \ {e})

\* what getEvents resolves with in the state machine: any part of the calendar
Batches == { LatestFirst(part) : part \in SUBSET Calendar }

\* -------------------------------------------------------- pure functions
\* the window test with the end of the window left out
isInRingWindow_EndExclusive(startTime, currentTime, ringWindow) ==
  LET startWindow == startTime - ringWindow.msBeforeStart
      endWindow == startTime + ringWindow.msAfterStart
  IN  currentTime >= startWindow /\ currentTime < endWindow

\* ring-window.ts: isInRingWindow(startTime, currentTime, ringWindow)
isInRingWindow(startTime, currentTime, ringWindow) ==
  LET startWindow == startTime - ringWindow.msBeforeStart
      endWindow == startTime + ringWindow.msAfterStart
  IN  currentTime >= startWindow /\ currentTime <= endWindow

\* Array.prototype.sort with the comparator a.startTime - b.startTime (stable)
RECURSIVE InsertByStart(_, _)
InsertByStart(sorted, e) ==
  IF sorted = <<>> THEN <<e>>
  ELSE IF e.startTime < Head(sorted).startTime THEN <<e>> \o sorted
  ELSE <<Head(sorted)>> \o InsertByStart(Tail(sorted), e)

\* no sort: the list as it came
SortByStart_Unsorted(events) == events

RECURSIVE SortByStart(_)
SortByStart(events) ==
  IF events = <<>> THEN <<>>
  ELSE InsertByStart(SortByStart(SubSeq(events, 1, Len(events) - 1)), events[Len(events)])

\* the window test of one candidate in getEarliestRingableEvent: TRUE when the loop skips it
SkippedByWindow(event, now) ==
  LET timeUntilStart == event.startTime - now
  IN  \/ timeUntilStart > NOTIFY_BEFORE_EVENT_START_MS
      \/ timeUntilStart < -NOTIFY_AFTER_EVENT_START_MS

\* the loop without the all-day / cancelled test
RECURSIVE FirstRingable_KeepsExcluded(_, _)
FirstRingable_KeepsExcluded(sorted, now) ==
  IF sorted = <<>> THEN NoEvent
  ELSE IF SkippedByWindow(Head(sorted), now)
         THEN FirstRingable_KeepsExcluded(Tail(sorted), now)
  ELSE Head(sorted)

\* the loop of getEarliestRingableEvent over the sorted list
RECURSIVE FirstRingable(_, _)
FirstRingable(sorted, now) ==
  IF sorted = <<>> THEN NoEvent
  ELSE IF Head(sorted).isAllDayEvent \/ Head(sorted).isCancelled
         THEN FirstRingable(Tail(sorted), now)
  ELSE IF SkippedByWindow(Head(sorted), now)
         THEN FirstRingable(Tail(sorted), now)
  ELSE Head(sorted)

\* MeetingMonitor.getEarliestRingableEvent(proximalEvents, now)
getEarliestRingableEvent(proximalEvents, now) ==
  FirstRingable(SortByStart(proximalEvents), now)


\* ------------------------------------------- dates that may be invalid
\* a JavaScript number: NaN, or an integer
NaN == [nan |-> TRUE, value |-> 0]

Num(n) == [nan |-> FALSE, value |-> n]

\* a Date is its time value: new Date(value) and new Date(string) keep an integer
\* time value inside the range of Date and give NaN (Invalid Date) for an
\* unparsable string or NaN; getTime() returns the time value
newDate(value) == value

getTime(date) == date

\* a - b and a + b: NaN when an operand is NaN
Minus(a, b) == IF a.nan \/ b.nan THEN NaN ELSE Num(a.value - b.value)

Plus(a, b) == IF a.nan \/ b.nan THEN NaN ELSE Num(a.value + b.value)

\* a > b, a < b, a >= b, a <= b on numbers, and on Dates through valueOf(): false
\* when an operand is NaN
Greater(a, b) == ~a.nan /\ ~b.nan /\ a.value > b.value

Less(a, b) == ~a.nan /\ ~b.nan /\ a.value < b.value

GreaterOrEqual(a, b) == ~a.nan /\ ~b.nan /\ a.value >= b.value

LessOrEqual(a, b) == ~a.nan /\ ~b.nan /\ a.value <= b.value

\* ring-window.ts: isInRingWindow(startTime, currentTime, ringWindow) on Dates
\* that may be invalid
isInRingWindowOfDates(startTime, currentTime, ringWindow) ==
  LET startWindow == newDate(Minus(getTime(startTime), Num(ringWindow.msBeforeStart)))
      endWindow == newDate(Plus(getTime(startTime), Num(ringWindow.msAfterStart)))
  IN  GreaterOrEqual(currentTime, startWindow) /\ LessOrEqual(currentTime, endWindow)

\* the window test of one candidate in getEarliestRingableEvent, for an
\* event.startTime that may not parse and for any two window constants: TRUE when
\* the loop skips the candidate
SkippedByWindowOfDates(eventStartTime, now, notifyBefore, notifyAfter) ==
  LET startTime == getTime(newDate(eventStartTime))
      timeUntilStart == Minus(startTime, getTime(now))
  IN  \/ Greater(timeUntilStart, Num(notifyBefore))
      \/ Less(timeUntilStart, Num(-notifyAfter))

\* ------------------------------------------------------------ DomWatcher
\* a function object: a plain function has bind 0, the n-th bound function made
\* by Function.prototype.bind has bind n; two are the same object when equal
Function(fn, n) == [fn |-> fn, bind |-> n]

\* a DomWatcher after its constructor; subscribers is the Set in insertion
\* order, created counts the calls of observerFactory
NewDomWatcher ==
  [subscribers |-> <<>>, mutationObserver |-> FALSE, observing |-> FALSE,
   created |-> 0, isProcessingNotifications |-> FALSE,
   hasPendingNotification |-> FALSE]

\* Set.has
has(subscribers, callback) ==
  \E i \in 1..Len(subscribers) : subscribers[i] = callback

\* Set.add
add(subscribers, callback) ==
  IF has(subscribers, callback) THEN subscribers ELSE Append(subscribers, callback)

\* Set.delete
delete(subscribers, callback) ==
  SelectSeq(subscribers, LAMBDA c : c /= callback)

\* DomWatcher.startWatching()
startWatching(d) ==
  [d EXCEPT !.created = IF d.mutationObserver THEN @ ELSE @ + 1,
            !.mutationObserver = TRUE,
            !.observing = TRUE]

\* DomWatcher.stopWatching()
stopWatching(d) ==
  IF d.mutationObserver THEN [d EXCEPT !.observing = FALSE] ELSE d

\* DomWatcher.subscribe(callback)
subscribe(d, callback) ==
  LET wasEmpty == Len(d.subscribers) = 0
      d1 == [d EXCEPT !.subscribers = add(@, callback)]
  IN  IF wasEmpty THEN startWatching(d1) ELSE d1

\* unsubscribe that leaves the observer connected
unsubscribe_KeepsWatching(d, callback) ==
  [d EXCEPT !.subscribers = delete(@, callback)]

\* DomWatcher.unsubscribe(callback)
unsubscribe(d, callback) ==
  LET d1 == [d EXCEPT !.subscribers = delete(@, callback)]
  IN  IF Len(d1.subscribers) = 0 THEN stopWatching(d1) ELSE d1

\* no notification pass is running
NoPass == [todo |-> <<>>, called |-> <<>>, arrived |-> 0, further |-> FALSE, coalesced |-> 0]


\* ----------------------------------------------------- ChromePortManager
\* the options TeamsNotifierApp constructs its port manager with: none of the
\* reconnect options, so the field initialisers stay
AppOptions ==
  [autoReconnect |-> TRUE, maxReconnectAttempts |-> 10,
   reconnectBaseDelayMs |-> 1000, maxReconnectDelayMs |-> 2 * 60 * 1000]

\* the data of an event emitted without data
NoData == [attempt |-> 0, delay |-> 0]

\* new ChromePortManager(options)
NewChromePortManager(options) ==
  [port |-> FALSE,                 \* port is not null
   isConnecting |-> FALSE,
   reconnectAttempt |-> 0,
   reconnectTimeout |-> 0,         \* 0 is null
   autoReconnect |-> options.autoReconnect,
   maxReconnectAttempts |-> options.maxReconnectAttempts,
   reconnectBaseDelayMs |-> options.reconnectBaseDelayMs,
   maxReconnectDelayMs |-> options.maxReconnectDelayMs,
   eventHandlers |-> TRUE,         \* the handler sets have not been cleared
   timers |-> {},                  \* pending window.setTimeout timers: id, delay
   emitted |-> <<>>,               \* observation: the events the last run emitted
   chain |->                       \* observation: the reconnection chain under way
     [from |-> "none",             \* what began it: "disconnect" or "connect"
      delays |-> <<>>,             \* the delays of the timers it set, in order
      attempts |-> 0,              \* connect() calls made by its timers
      failed |-> 0]]               \* RECONNECTION_FAILED events it emitted

\* ----------------------------------------------------------------- state
VARIABLES
  now,                      \* wall clock (Date.now()), ms
  authToken,                \* apiClient.authToken is set
  prejoinPresent,           \* document has the element PREJOIN_BUTTON
  hangupPresent,            \* document has the element HANGUP_BUTTON_ID
  anchorPresent,            \* document has MORE_OPTIONS_HEADER_ID with a parent
  isActivelyRunning,        \* MeetingMonitor.isActivelyRunning
  pollingIntervalId,        \* MeetingMonitor.pollingIntervalId (0 is null)
  activeNotificationEvent,  \* MeetingMonitor.activeNotificationEvent
  fetches,                  \* poll cycles awaiting getEvents: the query (with the `now`
                            \* captured) and, observed, stale: it began before the
                            \* notification shown now did
  pollTimers,               \* pending window.setTimeout timers of scheduleNextPoll
  ringtone,                 \* NotificationManager.ringtone is not null
  howl,                     \* state of the Howl sound
  isRinging,                \* NotificationManager.isRinging
  currentEvent,             \* NotificationManager.currentEvent
  notificationTimeout,      \* NotificationManager.notificationTimeout (0 is null)
  dismissedEvents,          \* NotificationManager.dismissedEvents
  userIsJoiningOrInCall,    \* NotificationManager.userIsJoiningOrInCall
  wrapper,                  \* notificationButtonsWrapper: "null", "detached", "attached"
  joinButton,               \* the wrapper holds the join button
  timeoutTimers,            \* pending window.setTimeout timers of onUpcomingMeeting
  retryTimers,              \* pending retryInsert timers: the chain's retryCount, the delay
  port,                     \* ChromePortManager.port is not null
  appAuthToken,             \* TeamsNotifierApp.authToken is set
  wasMonitoring,            \* TeamsNotifierApp.wasMonitoring
  domWatcher,               \* the DomWatcher: its fields
  binds,                    \* bound functions made so far by Function.prototype.bind
  pass,                     \* position of DomWatcher.notifySubscribers' loop
  portManager,              \* the ChromePortManager: its fields, its pending timers
  last,                     \* observation: the last operation that ran
  dismissHistory,           \* observation: per identifier, "dismissed" by the user, then "quiet";
                            \* "timedOut" until onNoUpcomingMeetings empties the Dismissed Set
  joinBaseline,             \* observation: in-call baseline of the current notification
  inCallSinceRing,          \* observation: a call control was present at ring start and since
  probe                     \* inputs and result of a pure function under test

vars == << now, authToken, prejoinPresent, hangupPresent, anchorPresent,
           isActivelyRunning, pollingIntervalId, activeNotificationEvent, fetches,
           pollTimers, ringtone, howl, isRinging, currentEvent, notificationTimeout,
           dismissedEvents, userIsJoiningOrInCall, wrapper, joinButton,
           timeoutTimers, retryTimers, port, appAuthToken, wasMonitoring,
           domWatcher, binds, pass, portManager,
           last, dismissHistory, joinBaseline, inCallSinceRing, probe >>

\* every field of the program and what is observed of it: all but the probe
fields == << now, authToken, prejoinPresent, hangupPresent, anchorPresent,
             isActivelyRunning, pollingIntervalId, activeNotificationEvent, fetches,
             pollTimers, ringtone, howl, isRinging, currentEvent, notificationTimeout,
             dismissedEvents, userIsJoiningOrInCall, wrapper, joinButton,
             timeoutTimers, retryTimers, port, appAuthToken, wasMonitoring,
             domWatcher, binds, pass, portManager,
             last, dismissHistory, joinBaseline, inCallSinceRing >>

\* the program state as one record, so that a handler is a function of it
World ==
  [ now |-> now, authToken |-> authToken, prejoinPresent |-> prejoinPresent,
    hangupPresent |-> hangupPresent, anchorPresent |-> anchorPresent,
    isActivelyRunning |-> isActivelyRunning, pollingIntervalId |-> pollingIntervalId,
    activeNotificationEvent |-> activeNotificationEvent, fetches |-> fetches,
    pollTimers |-> pollTimers, ringtone |-> ringtone, howl |-> howl,
    isRinging |-> isRinging, currentEvent |-> currentEvent,
    notificationTimeout |-> notificationTimeout, dismissedEvents |-> dismissedEvents,
    userIsJoiningOrInCall |-> userIsJoiningOrInCall, wrapper |-> wrapper,
    joinButton |-> joinButton, timeoutTimers |-> timeoutTimers,
    retryTimers |-> retryTimers, port |-> port, appAuthToken |-> appAuthToken,
    wasMonitoring |-> wasMonitoring, domWatcher |-> domWatcher, binds |-> binds,
    pass |-> pass, portManager |-> portManager,
    callback |-> "none",    \* the listener callback this handler run has invoked
    calls |-> <<>>,         \* every listener call of this run: << method, identifier >>
    setActive |-> "none" ]  \* the argument of its last setActiveNotification call

Commit(w) ==
  /\ now' = w.now
  /\ authToken' = w.authToken
  /\ prejoinPresent' = w.prejoinPresent
  /\ hangupPresent' = w.hangupPresent
  /\ anchorPresent' = w.anchorPresent
  /\ isActivelyRunning' = w.isActivelyRunning
  /\ pollingIntervalId' = w.pollingIntervalId
  /\ activeNotificationEvent' = w.activeNotificationEvent
  /\ fetches' = w.fetches
  /\ pollTimers' = w.pollTimers
  /\ ringtone' = w.ringtone
  /\ howl' = w.howl
  /\ isRinging' = w.isRinging
  /\ currentEvent' = w.currentEvent
  /\ notificationTimeout' = w.notificationTimeout
  /\ dismissedEvents' = w.dismissedEvents
  /\ userIsJoiningOrInCall' = w.userIsJoiningOrInCall
  /\ wrapper' = w.wrapper
  /\ joinButton' = w.joinButton
  /\ timeoutTimers' = w.timeoutTimers
  /\ retryTimers' = w.retryTimers
  /\ port' = w.port
  /\ appAuthToken' = w.appAuthToken
  /\ wasMonitoring' = w.wasMonitoring
  /\ domWatcher' = w.domWatcher
  /\ binds' = w.binds
  /\ pass' = w.pass
  /\ portManager' = w.portManager

\* --------------------------------------------------------- window timers
\* window.setTimeout returns an identifier no pending timer has; both callers
\* overwrite the one field that remembered an earlier identifier.
\* Poll timers get odd identifiers and notification timeouts even ones, so that
\* the identifiers of the two kinds never meet, as with the browser's one counter.
FreshId(used, first) ==
  CHOOSE i \in { first + 2 * k : k \in 0..Cardinality(used) } :
    i \notin used /\ \A j \in { first + 2 * k : k \in 0..Cardinality(used) } : j < i => j \in used

NextPollTimerId(w) == FreshId(w.pollTimers, 1)

NextTimeoutId(w) == FreshId({ t.id : t \in w.timeoutTimers }, 2)

\* window.clearTimeout(id)
clearTimeout(w, id) ==
  [w EXCEPT !.pollTimers = @ \ {id},
            !.timeoutTimers = { t \in @ : t.id /= id }]

\* ------------------------------------------------------------------ Howl
\* Howl.playing()
playing(w) == w.howl = "playing"

\* Howl.play(): the sound is queued until the audio engine starts it: until it
\* has loaded, or until the 'unlock' event after which the onplayerror handler of
\* the constructor plays it again
play(w) == IF w.howl = "stopped" THEN [w EXCEPT !.howl = "queued"] ELSE w

\* Howl.stop()
stop(w) == [w EXCEPT !.howl = "stopped"]


\* Howl.unload(): stops the sound and drops it
unload(w) == [w EXCEPT !.howl = "stopped"]

\* --------------------------------------------------- NotificationManager
\* document.getElementById(DISMISS_BUTTON_ID): the button lives in the wrapper
dismissButtonInDocument(w) == w.wrapper = "attached"

\* document.getElementById(JOIN_BUTTON_ID)
joinButtonInDocument(w) == w.wrapper = "attached" /\ w.joinButton

\* MeetingMonitor.setActiveNotification(event)
setActiveNotification(w, event) ==
  [w EXCEPT !.activeNotificationEvent = event,
            !.setActive = IF event = NoEvent THEN "null" ELSE "event"]

\* NotificationManager.startRingtone()
startRingtone(w) ==
  IF w.ringtone /\ ~playing(w)
    THEN play([w EXCEPT !.isRinging = TRUE])
    ELSE w

\* stopRingtone that stops the sound and keeps the flag
stopRingtone_KeepsFlag(w) ==
  IF w.ringtone /\ playing(w) THEN stop(w) ELSE w

\* NotificationManager.stopRingtone()
stopRingtone(w) ==
  IF w.ringtone /\ playing(w)
    THEN stop([w EXCEPT !.isRinging = FALSE])
    ELSE w

\* NotificationManager.insertNotificationButtons()
insertNotificationButtons(w) ==
  IF w.wrapper = "null" THEN w
  ELSE IF w.anchorPresent THEN [w EXCEPT !.wrapper = "attached"]
  ELSE w

\* NotificationManager.removeNotificationButtons()
removeNotificationButtons(w) ==
  IF w.wrapper = "attached"
    THEN [w EXCEPT !.wrapper = "null", !.joinButton = FALSE]
    ELSE w

\* retryInsert that never gives up
retryInsert_NoLimit(w, retryCount) ==
  [w EXCEPT !.retryTimers =
     Append(@, [retryCount |-> IF retryCount < maxRetries THEN retryCount ELSE maxRetries,
                delay |-> retryInterval])]

\* retryInsert() of createNotificationButtons, for the closure's retryCount
retryInsert(w, retryCount) ==
  IF retryCount < maxRetries
    THEN [w EXCEPT !.retryTimers =
            Append(@, [retryCount |-> retryCount, delay |-> retryInterval])]
    ELSE w

\* NotificationManager.createNotificationButtons()
createNotificationButtons(w) ==
  LET w1 == IF w.wrapper /= "null" THEN removeNotificationButtons(w) ELSE w
      hasValidMeetingUrl == w.currentEvent.skypeTeamsMeetingUrl
      w2 == [w1 EXCEPT !.wrapper = "detached", !.joinButton = hasValidMeetingUrl]
      w3 == insertNotificationButtons(w2)
  IN  IF /\ w3.wrapper /= "null"
         /\ ~dismissButtonInDocument(w3)
         /\ (~joinButtonInDocument(w3) \/ ~hasValidMeetingUrl)
        THEN retryInsert(w3, 0)
        ELSE w3

\* stopNotification that does not record the meeting as dismissed
stopNotification_NoRecord(w) ==
  LET w1 == stopRingtone(w)
      w2 == removeNotificationButtons(w1)
      w3 == IF w2.notificationTimeout /= 0
              THEN [clearTimeout(w2, w2.notificationTimeout) EXCEPT !.notificationTimeout = 0]
              ELSE w2
      w5 == setActiveNotification(w3, NoEvent)
  IN  [w5 EXCEPT !.currentEvent = NoEvent]

\* stopNotification that does not tell the monitor
stopNotification_KeepsActive(w) ==
  LET w1 == stopRingtone(w)
      w2 == removeNotificationButtons(w1)
      w3 == IF w2.notificationTimeout /= 0
              THEN [clearTimeout(w2, w2.notificationTimeout) EXCEPT !.notificationTimeout = 0]
              ELSE w2
      w4 == IF w3.currentEvent /= NoEvent
              THEN [w3 EXCEPT !.dismissedEvents = @ \cup {w3.currentEvent.objectId}]
              ELSE w3
  IN  [w4 EXCEPT !.currentEvent = NoEvent]

\* stopNotification that leaves the auto-timeout timer pending
stopNotification_KeepsTimer(w) ==
  LET w1 == stopRingtone(w)
      w2 == removeNotificationButtons(w1)
      w4 == IF w2.currentEvent /= NoEvent
              THEN [w2 EXCEPT !.dismissedEvents = @ \cup {w2.currentEvent.objectId}]
              ELSE w2
      w5 == setActiveNotification(w4, NoEvent)
  IN  [w5 EXCEPT !.currentEvent = NoEvent]

\* NotificationManager.stopNotification()
stopNotification(w) ==
  LET w1 == stopRingtone(w)
      w2 == removeNotificationButtons(w1)
      w3 == IF w2.notificationTimeout /= 0
              THEN [clearTimeout(w2, w2.notificationTimeout) EXCEPT !.notificationTimeout = 0]
              ELSE w2
      w4 == IF w3.currentEvent /= NoEvent
              THEN [w3 EXCEPT !.dismissedEvents = @ \cup {w3.currentEvent.objectId}]
              ELSE w3
      w5 == setActiveNotification(w4, NoEvent)
  IN  [w5 EXCEPT !.currentEvent = NoEvent]

\* a delay that counts the after-window from the start of the ring
notificationDuration_FromRingStart(event, dateNow) ==
  NOTIFY_AFTER_EVENT_START_MS

\* the delay handed to window.setTimeout by onUpcomingMeeting
notificationDuration(event, dateNow) ==
  LET timeUntilEventStarts == event.startTime - dateNow
  IN  timeUntilEventStarts + NOTIFY_AFTER_EVENT_START_MS

\* window.setTimeout(callback, delay): a delay below zero counts as zero
TimerDue(dateNow, delay) == IF delay > 0 THEN dateNow + delay ELSE dateNow

\* onUpcomingMeeting without the isRinging guard
onUpcomingMeeting_NoRingingGuard(w0, event) ==
  LET w == [w0 EXCEPT !.callback = "onUpcomingMeeting",
                      !.calls = Append(@, <<"onUpcomingMeeting", event.objectId>>)] IN
  IF event.objectId \in w.dismissedEvents THEN w
  ELSE
    LET w1 == [w EXCEPT !.currentEvent = event]
        w2 == setActiveNotification(w1, event)
        w3 == createNotificationButtons(w2)
        w4 == startRingtone(w3)
        w5 == [w4 EXCEPT !.userIsJoiningOrInCall = w4.hangupPresent]
        id == NextTimeoutId(w5)
    IN  [w5 EXCEPT !.notificationTimeout = id,
                   !.timeoutTimers = @ \cup
                     {[id |-> id, due |-> TimerDue(w.now, notificationDuration(event, w.now))]}]

\* NotificationManager.onUpcomingMeeting(event)
onUpcomingMeeting(w0, event) ==
  LET w == [w0 EXCEPT !.callback = "onUpcomingMeeting",
                      !.calls = Append(@, <<"onUpcomingMeeting", event.objectId>>)] IN
  IF event.objectId \in w.dismissedEvents THEN w
  ELSE IF w.isRinging THEN w
  ELSE
    LET w1 == [w EXCEPT !.currentEvent = event]
        w2 == setActiveNotification(w1, event)
        w3 == createNotificationButtons(w2)
        w4 == startRingtone(w3)
        w5 == [w4 EXCEPT !.userIsJoiningOrInCall = w4.hangupPresent]
        id == NextTimeoutId(w5)
    IN  [w5 EXCEPT !.notificationTimeout = id,
                   !.timeoutTimers = @ \cup
                     {[id |-> id, due |-> TimerDue(w.now, notificationDuration(event, w.now))]}]

\* createNotificationButtons when createElementFromHTML throws: the old wrapper
\* has been removed, nothing else has happened
createNotificationButtonsThrows(w) ==
  IF w.wrapper /= "null" THEN removeNotificationButtons(w) ELSE w

\* onUpcomingMeeting when createNotificationButtons throws: the statements before
\* the call have run, those after it have not
onUpcomingMeetingThrows(w0, event) ==
  LET w == [w0 EXCEPT !.callback = "onUpcomingMeeting",
                      !.calls = Append(@, <<"onUpcomingMeeting", event.objectId>>)] IN
  IF event.objectId \in w.dismissedEvents THEN w
  ELSE IF w.isRinging THEN w
  ELSE
    LET w1 == [w EXCEPT !.currentEvent = event]
        w2 == setActiveNotification(w1, event)
    IN  createNotificationButtonsThrows(w2)

\* NotificationManager.onNoUpcomingMeetings()
onNoUpcomingMeetings(w) ==
  stopNotification([w EXCEPT !.dismissedEvents = {}, !.callback = "onNoUpcomingMeetings",
                             !.calls = Append(@, <<"onNoUpcomingMeetings", "null">>)])

\* onDomChange that only refreshes the remembered in-call flag
onDomChange_NoJoinDetection(w) ==
  [w EXCEPT !.userIsJoiningOrInCall = w.prejoinPresent \/ w.hangupPresent]

\* NotificationManager.dispose(); this.onDomChange.bind(this) at its end makes a new
\* bound function, and that is what it hands to unsubscribe
dispose(w) ==
  LET w1 == stopNotification(w)
      w2 == IF w1.ringtone THEN [unload(w1) EXCEPT !.ringtone = FALSE] ELSE w1
      w3 == [w2 EXCEPT !.binds = @ + 1]
  IN  [w3 EXCEPT !.domWatcher = unsubscribe(@, Function("onDomChange", w3.binds))]

\* NotificationManager.onDomChange()
onDomChange(w) ==
  LET userIsNowJoiningOrInCall == w.prejoinPresent \/ w.hangupPresent
      w1 == IF w.isRinging /\ ~w.userIsJoiningOrInCall /\ userIsNowJoiningOrInCall
              THEN stopNotification(w)
              ELSE w
  IN  [w1 EXCEPT !.userIsJoiningOrInCall = userIsNowJoiningOrInCall]

\* -------------------------------------------------------- MeetingMonitor
\* the delay with the skip-forward taken below 15 s
pollDelay_LargerThreshold(seconds) ==
  LET timeToNextPoll == IF seconds < 30 THEN 30 - seconds ELSE 60 - seconds
      delay == timeToNextPoll * 1000
  IN  IF delay < 15000 THEN delay + 30000 ELSE delay

\* the delay without the skip-forward
pollDelay_NoSkip(seconds) ==
  LET timeToNextPoll == IF seconds < 30 THEN 30 - seconds ELSE 60 - seconds
  IN  timeToNextPoll * 1000

\* scheduleNextPoll: the delay in ms for the wall-clock second `seconds`
pollDelay(seconds) ==
  LET timeToNextPoll == IF seconds < 30 THEN 30 - seconds ELSE 60 - seconds
      delay == timeToNextPoll * 1000
  IN  IF delay < 10000 THEN delay + 30000 ELSE delay

\* MeetingMonitor.scheduleNextPoll(): clears the remembered timer, sets the next
scheduleNextPoll(w) ==
  LET w1 == IF w.pollingIntervalId /= 0 THEN clearTimeout(w, w.pollingIntervalId) ELSE w
      id == NextPollTimerId(w1)
  IN  [w1 EXCEPT !.pollingIntervalId = id, !.pollTimers = @ \cup {id}]

\* a query that starts at now
getEventsQuery_FromNow(pollNow) ==
  [now |-> pollNow,
   startDate |-> pollNow,
   endDate |-> pollNow + 2 * NOTIFY_BEFORE_EVENT_START_MS]

\* checkForUpcomingMeetings: the cycle's now and the range it hands to getEvents
getEventsQuery(pollNow) ==
  [now |-> pollNow,
   startDate |-> pollNow - 2 * NOTIFY_AFTER_EVENT_START_MS,
   endDate |-> pollNow + 2 * NOTIFY_BEFORE_EVENT_START_MS]

\* MeetingMonitor.checkForUpcomingMeetings(), up to the await of getEvents
checkForUpcomingMeetings(w) ==
  IF ~w.authToken THEN w
  ELSE [w EXCEPT !.fetches = Append(@, [query |-> getEventsQuery(w.now), stale |-> FALSE])]

\* the rest of the cycle without the test of activeNotificationEvent
checkForUpcomingMeetingsResolved_AlwaysNotifies(w, proximalEvents, pollNow) ==
  LET nextRingableEvent == getEarliestRingableEvent(proximalEvents, pollNow)
  IN  IF nextRingableEvent /= NoEvent
        THEN onUpcomingMeeting(w, nextRingableEvent)
        ELSE [onNoUpcomingMeetings(w) EXCEPT !.activeNotificationEvent = NoEvent]

\* the rest of the cycle with a selector that passes over dismissed meetings
checkForUpcomingMeetingsResolved_SkipsDismissed(w, proximalEvents, pollNow) ==
  LET notDismissed == SelectSeq(proximalEvents, LAMBDA e : e.objectId \notin w.dismissedEvents)
      nextRingableEvent == getEarliestRingableEvent(notDismissed, pollNow)
  IN  IF nextRingableEvent /= NoEvent
        THEN IF w.activeNotificationEvent /= NoEvent THEN w
             ELSE onUpcomingMeeting(w, nextRingableEvent)
        ELSE IF w.activeNotificationEvent /= NoEvent
               THEN [onNoUpcomingMeetings(w) EXCEPT !.activeNotificationEvent = NoEvent]
               ELSE w

\* MeetingMonitor.checkForUpcomingMeetings(), after getEvents resolved, for the
\* single registered listener (the NotificationManager)
checkForUpcomingMeetingsResolved(w, proximalEvents, pollNow) ==
  LET nextRingableEvent == getEarliestRingableEvent(proximalEvents, pollNow)
  IN  IF nextRingableEvent /= NoEvent
        THEN IF w.activeNotificationEvent /= NoEvent THEN w
             ELSE onUpcomingMeeting(w, nextRingableEvent)
        ELSE IF w.activeNotificationEvent /= NoEvent
               THEN [onNoUpcomingMeetings(w) EXCEPT !.activeNotificationEvent = NoEvent]
               ELSE w

\* MeetingMonitor.checkForUpcomingMeetings(), after getEvents resolved, when the
\* listener's onUpcomingMeeting throws: the catch block logs
checkForUpcomingMeetingsListenerThrows(w, proximalEvents, pollNow) ==
  LET nextRingableEvent == getEarliestRingableEvent(proximalEvents, pollNow)
  IN  IF nextRingableEvent /= NoEvent /\ w.activeNotificationEvent = NoEvent
        THEN onUpcomingMeetingThrows(w, nextRingableEvent)
        ELSE w

\* startMonitoring without the test of isActivelyRunning
startMonitoring_NoGuard(w) ==
  scheduleNextPoll(checkForUpcomingMeetings([w EXCEPT !.isActivelyRunning = TRUE]))

\* startMonitoring that tests nothing and sets a timer next to the pending one
startMonitoring_StacksTimers(w) ==
  LET w1 == checkForUpcomingMeetings([w EXCEPT !.isActivelyRunning = TRUE])
      id == NextPollTimerId(w1)
  IN  [w1 EXCEPT !.pollingIntervalId = id, !.pollTimers = @ \cup {id}]

\* MeetingMonitor.startMonitoring()
startMonitoring(w) ==
  IF w.isActivelyRunning THEN w
  ELSE scheduleNextPoll(checkForUpcomingMeetings([w EXCEPT !.isActivelyRunning = TRUE]))

\* stopMonitoring that forgets the timer without clearing it
stopMonitoring_KeepsTimer(w) ==
  IF w.pollingIntervalId /= 0
    THEN [w EXCEPT !.pollingIntervalId = 0]
    ELSE w

\* MeetingMonitor.stopMonitoring()
stopMonitoring(w) ==
  IF w.pollingIntervalId /= 0
    THEN [clearTimeout(w, w.pollingIntervalId) EXCEPT !.pollingIntervalId = 0]
    ELSE w

\* a catch block that gives up polling
checkForUpcomingMeetingsRejected_StopsPolling(w, i) ==
  stopMonitoring([w EXCEPT !.fetches = <<>>])

\* MeetingMonitor.checkForUpcomingMeetings(), when getEvents rejects: the catch
\* block logs
checkForUpcomingMeetingsRejected(w, i) ==
  [w EXCEPT !.fetches = SubSeq(@, 1, i - 1) \o SubSeq(@, i + 1, Len(@))]


\* ----------------------------------------------------------- observation
EventIds == { e.objectId : e \in Calendar }

\* a notification began in this step
RingStarted(w) ==
  /\ w.currentEvent /= NoEvent
  /\ w.notificationTimeout /= notificationTimeout

\* every candidate of the batch is an all-day or a cancelled event, and one of
\* them starts inside the ringable window of pollNow
ExcludedOnly(batch, pollNow) ==
  /\ \A i \in 1..Len(batch) : batch[i].isAllDayEvent \/ batch[i].isCancelled
  /\ \E i \in 1..Len(batch) :
       isInRingWindow(batch[i].startTime, pollNow,
         [msBeforeStart |-> NOTIFY_BEFORE_EVENT_START_MS,
          msAfterStart |-> NOTIFY_AFTER_EVENT_START_MS])

\* the cycles in flight after a step: those in flight when a notification begins
\* are stale until no notification is shown
MarkStale(w) ==
  [i \in 1..Len(w.fetches) |->
     [w.fetches[i] EXCEPT !.stale = IF RingStarted(w) THEN TRUE
                                    ELSE IF w.currentEvent = NoEvent THEN FALSE
                                    ELSE @]]

\* a step of the environment, or a DOM change while no notification is shown
Quiet ==
  [op |-> "env", arg |-> "null", was |-> "null", callback |-> "none", calls |-> <<>>,
   setActive |-> "none", ring |-> FALSE, excludedOnly |-> FALSE]

\* what the last step did.  op: the operation; arg: the meeting handed to it (the
\* selector's result for a poll cycle); was: the meeting notified before the step;
\* callback: the listener callback it made (calls: all of them); setActive: the argument of its
\* setActiveNotification call; ring: a notification began;
\* excludedOnly: the poll cycle's candidates were all-day or cancelled only
Op(name, eventId, w, excludedOnly) ==
  IF \/ name = "env"
     \/ name = "domChange" /\ currentEvent = NoEvent
    THEN Quiet
    ELSE [op |-> name, arg |-> eventId, was |-> currentEvent.objectId,
          callback |-> w.callback, calls |-> w.calls, setActive |-> w.setActive,
          ring |-> RingStarted(w),
          excludedOnly |-> excludedOnly]

\* userDismiss: the user clicked dismiss; quiet: a poll cycle found no ringable
\* meeting; domJoin: a DOM change found the user joining or in a call
Observe(name, eventId, w, excludedOnly, userDismiss, quiet, domJoin) ==
  /\ Commit([w EXCEPT !.fetches = MarkStale(w)])
  /\ last' = Op(name, eventId, w, excludedOnly)
  /\ probe' = probe
  /\ dismissHistory' =
       [id \in EventIds |->
          IF RingStarted(w) /\ w.currentEvent.objectId = id THEN "none"
          ELSE IF userDismiss /\ currentEvent.objectId = id THEN "dismissed"
          ELSE IF name = "timeout" /\ currentEvent.objectId = id THEN "timedOut"
          ELSE IF w.callback = "onNoUpcomingMeetings" /\ dismissHistory[id] = "timedOut"
            THEN "none"
          ELSE IF quiet /\ dismissHistory[id] = "dismissed" THEN "quiet"
          ELSE dismissHistory[id]]
  /\ joinBaseline' =
       IF RingStarted(w) THEN (IF hangupPresent THEN "true" ELSE "false")
       ELSE IF domJoin /\ joinBaseline = "false" THEN "joined"
       ELSE IF w.currentEvent = NoEvent THEN "none"
       ELSE joinBaseline
  /\ inCallSinceRing' =
       IF RingStarted(w) THEN prejoinPresent \/ hangupPresent
       ELSE IF w.currentEvent = NoEvent THEN FALSE
       ELSE IF name = "domChange" THEN inCallSinceRing /\ domJoin
       ELSE inCallSinceRing

Step(name, eventId, w) == Observe(name, eventId, w, FALSE, FALSE, FALSE, FALSE)

\* --------------------------------------------------------------- actions
NoProbe == [kind |-> "none"]

\* the fields of the monitor, the manager and the application after construction
FieldsConstructed ==
  /\ now = 0
  /\ authToken = FALSE
  /\ prejoinPresent = FALSE
  /\ hangupPresent = FALSE
  /\ anchorPresent \in BOOLEAN
  /\ isActivelyRunning = FALSE
  /\ pollingIntervalId = 0
  /\ activeNotificationEvent = NoEvent
  /\ fetches = <<>>
  /\ pollTimers = {}
  /\ ringtone = TRUE
  /\ howl = "stopped"
  /\ isRinging = FALSE
  /\ currentEvent = NoEvent
  /\ notificationTimeout = 0
  /\ dismissedEvents = {}
  /\ userIsJoiningOrInCall = FALSE
  /\ wrapper = "null"
  /\ joinButton = FALSE
  /\ timeoutTimers = {}
  /\ retryTimers = <<>>
  /\ port = FALSE
  /\ appAuthToken = FALSE
  /\ wasMonitoring = FALSE
  /\ last = Quiet
  /\ dismissHistory = [id \in EventIds |-> "none"]
  /\ joinBaseline = "none"
  /\ inCallSinceRing = FALSE

\* the manager's constructor has subscribed its bound onDomChange
Constructed ==
  /\ FieldsConstructed
  /\ binds = 1
  /\ domWatcher = subscribe(NewDomWatcher, Function("onDomChange", 1))
  /\ pass = NoPass
  /\ portManager = NewChromePortManager(AppOptions)

Init ==
  /\ Constructed
  /\ probe = NoProbe

\* the earliest deadline of a pending notification timeout after `now`
NextDeadline ==
  LET later == { t.due : t \in { u \in timeoutTimers : u.due > now } }
  IN  IF later = {} THEN now + TickMs
      ELSE CHOOSE d \in later : \A e \in later : d <= e

\* Time scales: a fetch takes far less than TickMs and the five insert retries of
\* a notification take 5 s, so both are over before the clock moves; a poll cycle
\* starts 10 s or more after the one before, when those retries are over.
\* The clock advances; a timer whose deadline is reached fires first.
Tick ==
  /\ now < MaxTicks * TickMs
  /\ \A t \in timeoutTimers : t.due > now
  /\ retryTimers = <<>>
  /\ fetches = <<>>
  /\ Step("env", "null",
          [World EXCEPT !.now = IF NextDeadline < now + TickMs
                                  THEN NextDeadline ELSE now + TickMs])

\* the host assigns apiClient.authToken
SetAuthToken ==
  \E token \in BOOLEAN :
    /\ token /= authToken
    /\ Step("env", "null", [World EXCEPT !.authToken = token])

StartMonitoring ==
  /\ Len(fetches) < MaxInFlight
  /\ retryTimers = <<>>
  /\ Step("startMonitoring", "null", startMonitoring(World))

StopMonitoring ==
  Step("stopMonitoring", "null", stopMonitoring(World))

\* the callback of scheduleNextPoll's timer
PollTimerFires ==
  \E id \in pollTimers :
    /\ Len(fetches) < MaxInFlight
    /\ retryTimers = <<>>
    /\ Step("env", "null",
            scheduleNextPoll(checkForUpcomingMeetings(
              [World EXCEPT !.pollTimers = @ \ {id}])))

RemoveAt(seq, i) == SubSeq(seq, 1, i - 1) \o SubSeq(seq, i + 1, Len(seq))

\* getEvents resolves with a batch: the rest of checkForUpcomingMeetings runs
PollResolve ==
  \E i \in 1..Len(fetches), batch \in Batches :
    LET pollNow == fetches[i].query.now
        w == checkForUpcomingMeetingsResolved(
               [World EXCEPT !.fetches = RemoveAt(@, i)], batch, pollNow)
        nextRingableEvent == getEarliestRingableEvent(batch, pollNow)
    IN  Observe("pollResolve", nextRingableEvent.objectId, w, ExcludedOnly(batch, pollNow),
                   FALSE, nextRingableEvent = NoEvent, FALSE)

\* the callback of scheduleNextPoll's timer, also while the fetch of the cycle
\* before is still pending
PollTimerFiresDuringFetch ==
  \E id \in pollTimers :
    /\ Len(fetches) < MaxOverlap
    /\ retryTimers = <<>>
    /\ Step("env", "null",
            scheduleNextPoll(checkForUpcomingMeetings(
              [World EXCEPT !.pollTimers = @ \ {id}])))

\* getEvents rejects: the catch block logs
PollReject ==
  \E i \in 1..Len(fetches) :
    Step("pollReject", "null", checkForUpcomingMeetingsRejected(World, i))

\* the callback of the notification timeout
TimeoutFires ==
  \E t \in timeoutTimers :
    /\ t.due <= now
    /\ Step("timeout", "null",
            stopNotification([World EXCEPT !.timeoutTimers = @ \ {t}]))

\* the user clicks the dismiss button
DismissClick ==
  /\ dismissButtonInDocument(World)
  /\ Observe("dismiss", "null", stopNotification(World), FALSE,
             currentEvent /= NoEvent, FALSE, FALSE)

\* the user clicks the join button; the handler reads currentEvent!.skypeTeamsMeetingUrl
\* first, which throws and changes nothing when there is no current event (the
\* navigation that follows the stop is not part of the state)
JoinClick ==
  /\ joinButtonInDocument(World)
  /\ currentEvent /= NoEvent
  /\ Step("join", "null", stopNotification(World))

\* the callback of a retryInsert timer, for the chain with this retryCount
retryCallback(w, retryCount) ==
  IF ~joinButtonInDocument(w) /\ ~dismissButtonInDocument(w)
    THEN LET w1 == insertNotificationButtons(w)
         IN  IF ~joinButtonInDocument(w1) /\ ~dismissButtonInDocument(w1)
               THEN retryInsert(w1, retryCount + 1)
               ELSE w1
    ELSE w

RetryFires ==
  \E i \in 1..Len(retryTimers) :
    Step("env", "null",
         retryCallback([World EXCEPT !.retryTimers = RemoveAt(@, i)], retryTimers[i].retryCount))

\* DomWatcher.handleMutations() with no pass running, when the one function ever
\* subscribed is the one the manager's constructor bound: the pass calls it if
\* it is in the set
handleMutations(w) ==
  IF w.domWatcher.observing /\ has(w.domWatcher.subscribers, Function("onDomChange", 1))
    THEN onDomChange(w)
    ELSE w

\* the page changes and the MutationObserver reports it; the anchor of the
\* buttons appears when the page has loaded its layout and then stays; the page
\* shows the pre-join screen or the call, never both
DomChange ==
  \E p, h, a \in BOOLEAN :
    /\ anchorPresent => a
    /\ ~(p /\ h)
    /\ Observe("domChange", "null",
               handleMutations([World EXCEPT !.prejoinPresent = p, !.hangupPresent = h,
                                             !.anchorPresent = a]),
               FALSE, FALSE, FALSE, p \/ h)

\* the audio engine starts the queued sound
PlaybackBegins ==
  /\ howl = "queued"
  /\ Step("env", "null", [World EXCEPT !.howl = "playing"])

Next ==
  \/ Tick
  \/ SetAuthToken
  \/ StartMonitoring
  \/ StopMonitoring
  \/ PollTimerFires
  \/ PollResolve
  \/ PollReject
  \/ TimeoutFires
  \/ DismissClick
  \/ JoinClick
  \/ RetryFires
  \/ DomChange
  \/ PlaybackBegins

Spec == Init /\ [][Next]_vars

\* getEvents resolves with a batch and createNotificationButtons throws while the
\* manager shows the notification of the cycle's meeting
PollResolveRenderError ==
  \E i \in 1..Len(fetches), batch \in Batches :
    LET pollNow == fetches[i].query.now
        nextRingableEvent == getEarliestRingableEvent(batch, pollNow)
    IN  /\ nextRingableEvent /= NoEvent
        /\ activeNotificationEvent = NoEvent
        /\ nextRingableEvent.objectId \notin dismissedEvents
        /\ ~isRinging
        /\ Step("renderError", nextRingableEvent.objectId,
                checkForUpcomingMeetingsListenerThrows(
                  [World EXCEPT !.fetches = RemoveAt(@, i)], batch, pollNow))

\* the monitor with slow fetches: a cycle starts before the one before has its answer
NextSlow ==
  \/ Tick
  \/ SetAuthToken
  \/ StartMonitoring
  \/ PollTimerFiresDuringFetch
  \/ PollResolve
  \/ TimeoutFires
  \/ RetryFires

SpecSlow == Init /\ [][NextSlow]_vars

\* the state machine with rendering failures
NextErr == Next \/ PollResolveRenderError

SpecErr == Init /\ [][NextErr]_vars

\* The NotificationManager driven through its listener interface by a caller
\* other than a polling monitor (as its unit tests drive it): the callbacks arrive
\* in any order and for any timed meeting of the calendar.  A disposed manager
\* gets no more callbacks: TeamsNotifierApp.dispose empties the monitor's listener
\* list before it disposes the manager.
DirectOnUpcomingMeeting ==
  \E event \in { e \in Calendar : ~e.isAllDayEvent /\ ~e.isCancelled } :
    /\ ringtone
    /\ retryTimers = <<>>
    /\ Step("onUpcomingMeeting", event.objectId, onUpcomingMeeting(World, event))

DirectOnNoUpcomingMeetings ==
  /\ ringtone
  /\ Step("onNoUpcomingMeetings", "null", onNoUpcomingMeetings(World))

\* the owner of the manager disposes it, once
Dispose ==
  /\ ringtone
  /\ Step("dispose", "null", dispose(World))

NextApi ==
  \/ Tick
  \/ DirectOnUpcomingMeeting
  \/ DirectOnNoUpcomingMeetings
  \/ Dispose
  \/ TimeoutFires
  \/ DismissClick
  \/ JoinClick
  \/ RetryFires
  \/ DomChange
  \/ PlaybackBegins

SpecApi == Init /\ [][NextApi]_vars


\* notifications that begin before the page has laid out its header: the manager
\* is handed meetings, the page changes, the user dismisses
NextRetry ==
  \/ DirectOnUpcomingMeeting
  \/ RetryFires
  \/ DomChange
  \/ PlaybackBegins
  \/ DismissClick

\* window.setTimeout runs the callback of every timer it was handed
SpecRetry == Init /\ [][NextRetry]_vars /\ WF_vars(RetryFires)

\* ------------------------------------------------------ the application
\* TeamsNotifierApp.handleAuthTokenUpdate(message): token is message.token set
handleAuthTokenUpdate(w, token) ==
  LET w1 == [w EXCEPT !.appAuthToken = token, !.authToken = token]
  IN  IF w1.appAuthToken
        THEN [startMonitoring(w1) EXCEPT !.wasMonitoring = TRUE]
        ELSE IF w1.wasMonitoring
               THEN [stopMonitoring(w1) EXCEPT !.wasMonitoring = FALSE]
               ELSE w1

\* the handler of PortEventType.DISCONNECTED
onDisconnected(w) ==
  IF w.appAuthToken
    THEN stopMonitoring([w EXCEPT !.wasMonitoring = TRUE])
    ELSE w

\* ChromePortManager.handleDisconnect(): the port is gone, DISCONNECTED is emitted
handleDisconnect(w) == onDisconnected([w EXCEPT !.port = FALSE])

\* ChromePortManager.connect(): the port is opened and CONNECTED is emitted, whose
\* handler posts the token request
connect(w) ==
  IF w.port THEN w ELSE [w EXCEPT !.port = TRUE]

\* the connection to the background script is made
PortConnects ==
  /\ ~port
  /\ Step("portConnected", "null", connect(World))

\* the browser closes the port
PortDisconnects ==
  /\ port
  /\ Step("portDisconnected", "null", handleDisconnect(World))

\* the background script posts AUTH_TOKEN_UPDATED on the port
AuthTokenUpdated ==
  \E token \in BOOLEAN :
    /\ port
    /\ Len(fetches) < MaxInFlight
    /\ retryTimers = <<>>
    /\ Step("authTokenUpdated", IF token THEN "token" ELSE "null",
            handleAuthTokenUpdate(World, token))

NextApp ==
  \/ PortConnects
  \/ PortDisconnects
  \/ AuthTokenUpdated
  \/ Tick
  \/ PollTimerFires
  \/ PollResolve
  \/ PollReject
  \/ TimeoutFires
  \/ DismissClick
  \/ RetryFires

SpecApp == Init /\ [][NextApp]_vars

\* --------------------------------------- the ChromePortManager on its own
\* the largest maxReconnectAttempts option tried next to the default
MaxAttemptsOption == 3

\* ChromePortManager.emitEvent(eventType, data)
emitEvent(pm, eventType, data) ==
  [pm EXCEPT !.emitted = Append(@, [type |-> eventType, data |-> data])]

\* Math.min
Min(a, b) == IF a < b THEN a ELSE b

\* scheduleReconnect with a delay that doubles without end
reconnectDelay_NoCap(pm) ==
  pm.reconnectBaseDelayMs * 2 ^ (pm.reconnectAttempt - 1)

\* scheduleReconnect: the delay with exponential backoff
reconnectDelay(pm) ==
  Min(pm.reconnectBaseDelayMs * 2 ^ (pm.reconnectAttempt - 1), pm.maxReconnectDelayMs)

\* ChromePortManager.scheduleReconnect()
scheduleReconnect(pm0) ==
  LET pm1 == [pm0 EXCEPT !.reconnectAttempt = @ + 1]
      pm2 == IF pm1.reconnectTimeout /= 0
               THEN [pm1 EXCEPT !.timers = { t \in @ : t.id /= pm1.reconnectTimeout },
                                !.reconnectTimeout = 0]
               ELSE pm1
  IN  IF pm2.reconnectAttempt > pm2.maxReconnectAttempts
        THEN [emitEvent(pm2, "reconnection_failed", NoData) EXCEPT !.chain.failed = @ + 1]
        ELSE LET delay == reconnectDelay(pm2)
                 pm3 == emitEvent(pm2, "reconnecting",
                                  [attempt |-> pm2.reconnectAttempt, delay |-> delay])
                 id == FreshId({ t.id : t \in pm3.timers }, 1)
             IN  [pm3 EXCEPT !.reconnectTimeout = id,
                             !.timers = @ \cup {[id |-> id, delay |-> delay]},
                             !.chain.delays = Append(@, delay)]

\* ChromePortManager.connect(); throws: chrome.runtime.connect throws
ChromePortManager_connect(pm, throws) ==
  IF pm.port THEN pm
  ELSE IF pm.isConnecting THEN pm
  ELSE IF ~throws
    THEN emitEvent([pm EXCEPT !.port = TRUE, !.isConnecting = FALSE,
                              !.reconnectAttempt = 0],
                   "connected", NoData)
  ELSE LET pm1 == [pm EXCEPT !.isConnecting = FALSE,
                             !.chain.from = IF @ = "none" THEN "connect" ELSE @]
       IN  IF pm1.autoReconnect THEN scheduleReconnect(pm1) ELSE pm1

\* ChromePortManager.handleDisconnect(): a reconnection chain begins
ChromePortManager_handleDisconnect(pm) ==
  LET pm1 == emitEvent([pm EXCEPT !.port = FALSE], "disconnected", NoData)
      pm2 == [pm1 EXCEPT !.chain = [from |-> "disconnect", delays |-> <<>>,
                                    attempts |-> 0, failed |-> 0]]
  IN  IF pm2.autoReconnect THEN scheduleReconnect(pm2) ELSE pm2

\* ChromePortManager.disconnect()
ChromePortManager_disconnect(pm) ==
  LET pm1 == IF pm.reconnectTimeout /= 0
               THEN [pm EXCEPT !.timers = { t \in @ : t.id /= pm.reconnectTimeout },
                               !.reconnectTimeout = 0]
               ELSE pm
  IN  [pm1 EXCEPT !.port = FALSE, !.isConnecting = FALSE, !.reconnectAttempt = 0]

\* ChromePortManager.dispose()
ChromePortManager_dispose(pm) ==
  [ChromePortManager_disconnect(pm) EXCEPT !.eventHandlers = FALSE]

\* a run of the port manager's code: nothing else of the program moves
PortRun(pm) ==
  /\ Commit([World EXCEPT !.portManager = pm])
  /\ UNCHANGED << last, dismissHistory, joinBaseline, inCallSinceRing, probe >>

\* the constructor options tried: the defaults, and small limits
PortOptions ==
  [autoReconnect : BOOLEAN,
   maxReconnectAttempts : (0..MaxAttemptsOption) \cup {10},
   reconnectBaseDelayMs : {1000},
   maxReconnectDelayMs : {4000, 2 * 60 * 1000}]

\* the callback of the timer scheduleReconnect set: connect(), which fails or not
ReconnectTimerFires ==
  \E t \in portManager.timers, throws \in BOOLEAN :
    PortRun(ChromePortManager_connect(
              [portManager EXCEPT !.timers = @ \ {t}, !.emitted = <<>>,
                                  !.chain.attempts = @ + 1],
              throws))

\* the browser closes the port: its onDisconnect listener runs
PortClosed ==
  /\ portManager.port
  /\ PortRun(ChromePortManager_handleDisconnect([portManager EXCEPT !.emitted = <<>>]))

\* TeamsNotifierApp.dispose() disposes of the port manager
DisposePort ==
  /\ portManager.eventHandlers
  /\ PortRun(ChromePortManager_dispose([portManager EXCEPT !.emitted = <<>>]))

\* TeamsNotifierApp's constructor has made the manager and called connect()
InitPort ==
  /\ FieldsConstructed
  /\ binds = 1
  /\ domWatcher = subscribe(NewDomWatcher, Function("onDomChange", 1))
  /\ pass = NoPass
  /\ probe = NoProbe
  /\ \E options \in PortOptions, throws \in BOOLEAN :
       portManager = ChromePortManager_connect(NewChromePortManager(options), throws)

NextPort ==
  \/ ReconnectTimerFires
  \/ PortClosed
  \/ DisposePort

\* window.setTimeout runs the callback of the timer it was handed
SpecPort == InitPort /\ [][NextPort]_vars /\ WF_vars(ReconnectTimerFires)

\* ------------------------------------------- the DomWatcher on its own
\* DomWatcher.notifySubscribers(), to the start of its loop: the copy of the
\* subscriber set is what the loop will go through.  further: called from the
\* finally block; coalesced: the mutations that arrived during the pass before
notifySubscribers(w, further) ==
  [w EXCEPT !.domWatcher.isProcessingNotifications = TRUE,
            !.domWatcher.hasPendingNotification = FALSE,
            !.pass = [todo |-> w.domWatcher.subscribers, called |-> <<>>, arrived |-> 0,
                      further |-> further,
                      coalesced |-> IF further THEN w.pass.arrived ELSE 0]]

\* queueNotification that notifies at once
queueNotification_Reentrant(w) ==
  notifySubscribers(w, FALSE)

\* DomWatcher.queueNotification()
queueNotification(w) ==
  IF w.domWatcher.isProcessingNotifications
    THEN [w EXCEPT !.domWatcher.hasPendingNotification = TRUE,
                   !.pass.arrived = @ + 1]
    ELSE notifySubscribers(w, FALSE)

\* an iteration that calls whatever the copy holds
notifyNext_NoMembershipTest(w) ==
  [w EXCEPT !.pass.todo = Tail(@),
            !.pass.called = Append(@, Head(w.pass.todo))]

\* one iteration of the loop of notifySubscribers
notifyNext(w) ==
  LET subscriber == Head(w.pass.todo)
      w1 == [w EXCEPT !.pass.todo = Tail(@)]
  IN  IF has(w.domWatcher.subscribers, subscriber)
        THEN [w1 EXCEPT !.pass.called = Append(@, subscriber)]
        ELSE w1

\* the finally block of notifySubscribers
notifySubscribersFinally(w) ==
  LET w1 == [w EXCEPT !.domWatcher.isProcessingNotifications = FALSE]
  IN  IF w1.domWatcher.hasPendingNotification
        THEN notifySubscribers(w1, TRUE)
        ELSE [w1 EXCEPT !.pass = NoPass]

\* the callbacks of the watcher's clients
Callbacks == { Function("f", 0), Function("g", 0), Function("h", 0) }

\* client code runs: outside a pass, or inside a subscriber the pass has called
ClientRuns ==
  \/ ~domWatcher.isProcessingNotifications
  \/ pass.called /= <<>>

Subscribe ==
  \E callback \in Callbacks :
    /\ ClientRuns
    /\ Step("subscribe", callback.fn, [World EXCEPT !.domWatcher = subscribe(@, callback)])

Unsubscribe ==
  \E callback \in Callbacks :
    /\ ClientRuns
    /\ Step("unsubscribe", callback.fn,
            [World EXCEPT !.domWatcher = unsubscribe(@, callback)])

\* the connected MutationObserver reports a mutation: handleMutations()
Mutation ==
  /\ domWatcher.observing
  /\ ClientRuns
  /\ pass.arrived < MaxArrivals
  /\ Step("mutation", "null", queueNotification(World))

\* the loop of notifySubscribers takes the next subscriber of its copy
NotifyNext ==
  /\ domWatcher.isProcessingNotifications
  /\ pass.todo /= <<>>
  /\ Step(IF has(domWatcher.subscribers, Head(pass.todo)) THEN "notify" ELSE "skip",
          Head(pass.todo).fn, notifyNext(World))

\* the loop is over: the finally block runs
PassEnds ==
  /\ domWatcher.isProcessingNotifications
  /\ pass.todo = <<>>
  /\ Step("passEnd", "null", notifySubscribersFinally(World))

\* a DomWatcher as dom-watcher.test.ts constructs it: nobody has subscribed
InitDom ==
  /\ FieldsConstructed
  /\ binds = 0
  /\ domWatcher = NewDomWatcher
  /\ pass = NoPass
  /\ portManager = NewChromePortManager(AppOptions)
  /\ probe = NoProbe

NextDom ==
  \/ Subscribe
  \/ Unsubscribe
  \/ Mutation
  \/ NotifyNext
  \/ PassEnds

SpecDom == InitDom /\ [][NextDom]_vars

\* ------------------------------------------------- pure functions probed
\* candidates for the selector: start times one ms and one window apart
ProbeCalendar ==
  { CalendarEvent("P", TickMs, FALSE, FALSE, TRUE),
    CalendarEvent("Q", TickMs + 1, FALSE, FALSE, TRUE),
    CalendarEvent("R", 2 * TickMs, FALSE, FALSE, FALSE),
    CalendarEvent("S", TickMs - 1, TRUE, FALSE, TRUE),
    CalendarEvent("T", TickMs, FALSE, TRUE, TRUE) }

ProbeNows ==
  { TickMs - NOTIFY_BEFORE_EVENT_START_MS - 1, TickMs - NOTIFY_BEFORE_EVENT_START_MS,
    TickMs, TickMs + NOTIFY_AFTER_EVENT_START_MS, TickMs + NOTIFY_AFTER_EVENT_START_MS + 1,
    2 * TickMs + NOTIFY_AFTER_EVENT_START_MS }

InitFn ==
  /\ Constructed
  /\ \/ \E startTime, currentTime \in 0..ProbeMaxTime,
           before, after \in 0..ProbeMaxDuration :
          probe = [kind |-> "isInRingWindow", startTime |-> startTime,
                   currentTime |-> currentTime,
                   ringWindow |-> [msBeforeStart |-> before, msAfterStart |-> after],
                   done |-> FALSE, result |-> FALSE]
     \/ \E batch \in BatchesOf(ProbeCalendar, ProbeMaxBatch), pollNow \in ProbeNows :
          probe = [kind |-> "getEarliestRingableEvent", proximalEvents |-> batch,
                   now |-> pollNow, done |-> FALSE, result |-> NoEvent]
     \/ \E startTime, currentTime \in {NaN} \cup { Num(t) : t \in 0..ProbeMaxTime },
           before, after \in 0..ProbeMaxDuration :
          probe = [kind |-> "windowTests", startTime |-> startTime,
                   currentTime |-> currentTime,
                   ringWindow |-> [msBeforeStart |-> before, msAfterStart |-> after],
                   done |-> FALSE, skipped |-> FALSE, result |-> FALSE]
     \/ \E seconds \in 0..59 :
          probe = [kind |-> "pollDelay", seconds |-> seconds, done |-> FALSE, result |-> 0]

ApplyIsInRingWindow ==
  /\ probe.kind = "isInRingWindow" /\ ~probe.done
  /\ probe' = [probe EXCEPT !.done = TRUE,
                 !.result = isInRingWindow(probe.startTime, probe.currentTime, probe.ringWindow)]
  /\ UNCHANGED fields

ApplyGetEarliestRingableEvent ==
  /\ probe.kind = "getEarliestRingableEvent" /\ ~probe.done
  /\ probe' = [probe EXCEPT !.done = TRUE,
                 !.result = getEarliestRingableEvent(probe.proximalEvents, probe.now)]
  /\ UNCHANGED fields

\* scheduleNextPoll computes its delay at Date.getSeconds() = probe.seconds
ApplyPollDelay ==
  /\ probe.kind = "pollDelay" /\ ~probe.done
  /\ probe' = [probe EXCEPT !.done = TRUE, !.result = pollDelay(probe.seconds)]
  /\ UNCHANGED fields

\* the selector is called again at a later time with the same candidates
ApplyGetEarliestRingableEventLater ==
  /\ probe.kind = "getEarliestRingableEvent" /\ probe.done
  /\ \E later \in ProbeNows :
       /\ later > probe.now
       /\ probe' = [kind |-> "getEarliestRingableEventLater",
                    proximalEvents |-> probe.proximalEvents,
                    earlier |-> [now |-> probe.now, result |-> probe.result],
                    now |-> later, done |-> TRUE,
                    result |-> getEarliestRingableEvent(probe.proximalEvents, later)]
  /\ UNCHANGED fields

\* the window test of the selector and isInRingWindow, on the same input
ApplyWindowTests ==
  /\ probe.kind = "windowTests" /\ ~probe.done
  /\ probe' = [probe EXCEPT !.done = TRUE,
                 !.skipped = SkippedByWindowOfDates(probe.startTime, probe.currentTime,
                               probe.ringWindow.msBeforeStart, probe.ringWindow.msAfterStart),
                 !.result = isInRingWindowOfDates(probe.startTime, probe.currentTime,
                                                  probe.ringWindow)]
  /\ UNCHANGED fields

NextFn ==
  \/ ApplyIsInRingWindow
  \/ ApplyGetEarliestRingableEvent
  \/ ApplyGetEarliestRingableEventLater
  \/ ApplyWindowTests
  \/ ApplyPollDelay

SpecFn == InitFn /\ [][NextFn]_vars

\* ---------------------------------------------------------------- claims
Elements(seq) == { seq[i] : i \in 1..Len(seq) }

\* the selector was applied to candidates with distinct start times, all inside
\* the ringable window, none cancelled or all-day
C6_AllRingable ==
  /\ probe.kind = "getEarliestRingableEvent"
  /\ probe.proximalEvents /= <<>>
  /\ \A e \in Elements(probe.proximalEvents) :
       /\ ~e.isAllDayEvent /\ ~e.isCancelled
       /\ isInRingWindow(e.startTime, probe.now,
            [msBeforeStart |-> NOTIFY_BEFORE_EVENT_START_MS,
             msAfterStart |-> NOTIFY_AFTER_EVENT_START_MS])
  /\ \A i, j \in 1..Len(probe.proximalEvents) :
       i /= j => probe.proximalEvents[i].startTime /= probe.proximalEvents[j].startTime

\* C6: for candidates with distinct start times that are all inside the ringable
\* window and neither cancelled nor all-day, getEarliestRingableEvent returns the
\* candidate with the minimal start time, whatever the order of the list.
C6_EarliestWins ==
  (C6_AllRingable /\ probe.done) =>
    /\ probe.result \in Elements(probe.proximalEvents)
    /\ \A e \in Elements(probe.proximalEvents) : probe.result.startTime <= e.startTime

\* the earliest candidate came last in a list of three and was returned
C6_Witness ==
  /\ C6_AllRingable /\ probe.done
  /\ Len(probe.proximalEvents) = 3
  /\ probe.result = probe.proximalEvents[3]
  /\ probe.result.startTime < probe.proximalEvents[1].startTime

\* C7: isInRingWindow(T, now, window) is true exactly when
\* T - before <= now <= T + after: true at both bounds, false 1 ms outside them.
C7_WindowInclusive ==
  (probe.kind = "isInRingWindow" /\ probe.done) =>
    LET T == probe.startTime
        t == probe.currentTime
        before == probe.ringWindow.msBeforeStart
        after == probe.ringWindow.msAfterStart
    IN  /\ probe.result <=> (T - before <= t /\ t <= T + after)
        /\ (t = T - before \/ t = T + after) => probe.result
        /\ (t = T - before - 1 \/ t = T + after + 1) => ~probe.result

\* the test was evaluated at the end of a window with before /= after, and was true
C7_Witness ==
  /\ probe.kind = "isInRingWindow" /\ probe.done
  /\ probe.ringWindow.msBeforeStart /= probe.ringWindow.msAfterStart
  /\ probe.currentTime = probe.startTime + probe.ringWindow.msAfterStart
  /\ probe.result

\* C1: after the user dismissed the notification of meeting M, no poll cycle makes
\* M ring again for as long as no poll cycle has reported zero ringable meetings.
C1_DismissSuppression ==
  [][ \A id \in EventIds :
        (dismissHistory[id] = "dismissed" /\ last'.arg = id) => ~last'.ring ]_vars

\* a poll cycle found the dismissed meeting ringable, handed it to the manager,
\* and no notification began
C1_Witness ==
  /\ last.op = "pollResolve"
  /\ last.callback = "onUpcomingMeeting"
  /\ last.arg \in EventIds
  /\ dismissHistory[last.arg] = "dismissed"
  /\ ~last.ring
  /\ currentEvent = NoEvent

\* C2: after a user dismiss of M, a poll cycle that reports zero ringable meetings
\* clears the Dismissed Set (so that M can ring again): once such a cycle has
\* run, M is no longer in the set.
C2_QuietResetClears ==
  \A id \in EventIds : dismissHistory[id] = "quiet" => id \notin dismissedEvents

\* C3: while a notification rings for M, an onUpcomingMeeting call for a meeting
\* with another identifier leaves the active notification M's: no new timeout is
\* armed and setActiveNotification is not called.
C3_AtMostOneNotification ==
  [][ ( /\ isRinging
        /\ currentEvent /= NoEvent
        /\ last'.callback = "onUpcomingMeeting"
        /\ last'.arg /= currentEvent.objectId )
      => ( /\ currentEvent' = currentEvent
           /\ activeNotificationEvent' = activeNotificationEvent
           /\ notificationTimeout' = notificationTimeout
           /\ timeoutTimers' = timeoutTimers
           /\ last'.setActive = "none"
           /\ ~last'.ring ) ]_vars

\* onUpcomingMeeting was called for a meeting that is not dismissed while another
\* one was ringing, and that one still is
C3_Witness ==
  /\ last.op = "onUpcomingMeeting"
  /\ last.was /= "null"
  /\ last.arg /= last.was
  /\ last.arg \notin dismissedEvents
  /\ isRinging
  /\ currentEvent.objectId = last.was
  /\ Cardinality(timeoutTimers) = 1

\* C4: a notification for a meeting starting at T has its timeout armed for
\* T + NOTIFY_AFTER_EVENT_START_MS whenever the ring began, the clock does not pass
\* that moment while it rings, and the timeout, when it fires, ends it at exactly
\* that moment.
C4_TimeoutAtStartPlusAfter ==
  /\ [](currentEvent /= NoEvent =>
          /\ now <= currentEvent.startTime + NOTIFY_AFTER_EVENT_START_MS
          /\ timeoutTimers =
               {[id |-> notificationTimeout,
                 due |-> currentEvent.startTime + NOTIFY_AFTER_EVENT_START_MS]})
  /\ [][ (last'.op = "timeout" /\ currentEvent /= NoEvent) =>
           /\ now' = currentEvent.startTime + NOTIFY_AFTER_EVENT_START_MS
           /\ currentEvent' = NoEvent
           /\ activeNotificationEvent' = NoEvent
           /\ notificationTimeout' = 0 ]_vars

\* the notification of B, which began before B's start, was ended by its timeout
C4_Witness ==
  /\ last.op = "timeout"
  /\ last.was = "B"
  /\ now = 2 * TickMs + NOTIFY_AFTER_EVENT_START_MS
  /\ currentEvent = NoEvent

\* C5: stopMonitoring returns the scheduler to Idle, so a later startMonitoring is
\* not a no-op: when startMonitoring has returned, the scheduler is Active with
\* its next poll timer pending.
C5_StartSchedulesAgain ==
  last.op = "startMonitoring" =>
    /\ isActivelyRunning
    /\ pollingIntervalId /= 0
    /\ pollingIntervalId \in pollTimers

\* the identifiers of the all-day and the cancelled meetings of the calendar
ExcludedIds == { e.objectId : e \in { c \in Calendar : c.isAllDayEvent \/ c.isCancelled } }

\* C8: an all-day or cancelled candidate is never the selector's result, is never
\* handed to onUpcomingMeeting and never notified, even inside the ringable
\* window; a poll cycle with only such candidates is handled as one with no
\* ringable meeting (onNoUpcomingMeetings when a notification is active, nothing
\* otherwise).
C8_ExcludedNeverSelected ==
  /\ last.arg \notin ExcludedIds
  /\ currentEvent.objectId \notin ExcludedIds
  /\ activeNotificationEvent.objectId \notin ExcludedIds
  /\ (last.op = "pollResolve" /\ last.excludedOnly) =>
       /\ last.arg = "null"
       /\ ~last.ring
       /\ currentEvent = NoEvent
       /\ last.callback = IF last.was /= "null" THEN "onNoUpcomingMeetings" ELSE "none"

\* a poll cycle whose only candidates were all-day or cancelled meetings inside
\* the ringable window ended the notification of A as a quiet cycle does
C8_Witness ==
  /\ last.op = "pollResolve"
  /\ last.excludedOnly
  /\ last.was = "A"
  /\ last.callback = "onNoUpcomingMeetings"
  /\ currentEvent = NoEvent

\* C9: when a poll cycle reports no ringable meeting while a notification rings,
\* the Dismissed Set is empty after the resulting stop.
C9_QuietStopLeavesSetEmpty ==
  (last.op = "pollResolve" /\ last.callback = "onNoUpcomingMeetings") =>
    dismissedEvents = {}

C11_NoStopWhenAlreadyInCall ==
  [][ ( /\ last'.op = "domChange"
        /\ currentEvent /= NoEvent
        /\ inCallSinceRing
        /\ (prejoinPresent' \/ hangupPresent') )
      => currentEvent' = currentEvent ]_vars

\* C12: a poll cycle in which fetching the candidates or rendering the buttons
\* raises an error leaves the Dismissed Set, the manager's current event and the
\* monitor's active event as they were.
C12_FailedCycleIsNoOp ==
  [][ last'.op \in {"pollReject", "renderError"} =>
        /\ dismissedEvents' = dismissedEvents
        /\ currentEvent' = currentEvent
        /\ activeNotificationEvent' = activeNotificationEvent ]_vars

\* C13: a poll cycle whose getEvents rejects calls no listener and leaves the
\* schedule alone: the pending poll timer and the notification state are what
\* they were, so the timer still fires and starts the next cycle.
C13_RejectKeepsSchedule ==
  /\ []((last.op = "pollReject" /\ pollTimers /= {} /\ retryTimers = <<>>) =>
         ENABLED PollTimerFires)
  /\ [][ last'.op = "pollReject" =>
           /\ last'.callback = "none"
           /\ pollTimers' = pollTimers
           /\ pollingIntervalId' = pollingIntervalId
           /\ isActivelyRunning' = isActivelyRunning
           /\ Len(fetches') = Len(fetches) - 1
           /\ << currentEvent', activeNotificationEvent', dismissedEvents', isRinging',
                 notificationTimeout', timeoutTimers', howl', wrapper' >>
              = << currentEvent, activeNotificationEvent, dismissedEvents, isRinging,
                   notificationTimeout, timeoutTimers, howl, wrapper >> ]_vars

\* a cycle's fetch was rejected and the scheduler's timer is still pending
C13_Witness ==
  /\ last.op = "pollReject"
  /\ isActivelyRunning
  /\ pollingIntervalId \in pollTimers
  /\ fetches = <<>>

\* C14: a notification whose audio never played leaves the manager Idle when it
\* ends: with no current event the manager is not ringing, and a meeting that a
\* poll cycle hands to the manager and that is not in the Dismissed Set begins to
\* ring.
C14_IdleAfterSilentNotification ==
  /\ [](currentEvent = NoEvent => ~isRinging)
  /\ [][ ( /\ last'.op = "pollResolve"
           /\ last'.callback = "onUpcomingMeeting"
           /\ last'.arg \notin dismissedEvents )
         => last'.ring ]_vars

\* C15: when a ringing notification whose audio is playing ends, by dismiss or
\* join click, timeout, join detection, onNoUpcomingMeetings or dispose, the
\* manager afterwards is not ringing, has no armed timeout and no current event,
\* the audio is stopped and the monitor's active notification is null.
C15_CleanAfterEnd ==
  [][ ( /\ currentEvent /= NoEvent
        /\ isRinging
        /\ howl = "playing"
        /\ \/ last'.op \in {"dismiss", "join", "timeout", "onNoUpcomingMeetings", "dispose"}
           \/ /\ last'.op = "domChange"
              /\ ~userIsJoiningOrInCall
              /\ (prejoinPresent' \/ hangupPresent') )
      => ( /\ ~isRinging'
           /\ notificationTimeout' = 0
           /\ timeoutTimers' = {}
           /\ currentEvent' = NoEvent
           /\ howl' = "stopped"
           /\ activeNotificationEvent' = NoEvent ) ]_vars

\* dispose ended the notification of A, whose audio was playing
C15_Witness ==
  /\ last.op = "dispose"
  /\ last.was = "A"
  /\ ~ringtone
  /\ ~isRinging
  /\ currentEvent = NoEvent
  /\ howl = "stopped"

\* C16: the timeout of M's notification puts M in the Dismissed Set, and from then
\* on (until onNoUpcomingMeetings empties the set) no poll cycle makes M ring
\* again, the cycle at T + A that finds M still inside the window included.
C16_TimeoutSuppresses ==
  /\ [](\A id \in EventIds : dismissHistory[id] = "timedOut" => id \in dismissedEvents)
  /\ [][ \A id \in EventIds :
           (dismissHistory[id] = "timedOut" /\ last'.arg = id) => ~last'.ring ]_vars

\* at T + A, after A's timeout, a poll cycle found A ringable, handed it to the
\* manager, and nothing began to ring
C16_Witness ==
  /\ last.op = "pollResolve"
  /\ last.callback = "onUpcomingMeeting"
  /\ last.arg = "A"
  /\ dismissHistory["A"] = "timedOut"
  /\ now = 1 * TickMs + NOTIFY_AFTER_EVENT_START_MS
  /\ ~last.ring
  /\ ~isRinging
  /\ currentEvent = NoEvent

\* C17: a poll cycle makes at most one listener call: onUpcomingMeeting with the
\* selector's result exactly when there is one and the monitor has no active
\* notification; onNoUpcomingMeetings exactly when there is none and the monitor
\* has an active notification, whose reference is null afterwards; no call in
\* every other case, and then the cycle changes nothing.
C17_OneCallbackPerCycle ==
  [][ last'.op = "pollResolve" =>
        LET ringable == last'.arg /= "null"
            active == activeNotificationEvent /= NoEvent
        IN  /\ last'.calls =
                 IF ringable /\ ~active THEN << <<"onUpcomingMeeting", last'.arg>> >>
                 ELSE IF ~ringable /\ active THEN << <<"onNoUpcomingMeetings", "null">> >>
                 ELSE <<>>
            /\ (~ringable /\ active) => activeNotificationEvent' = NoEvent
            /\ (ringable = active) =>
                 << currentEvent', activeNotificationEvent', dismissedEvents', isRinging',
                    notificationTimeout', timeoutTimers' >>
                 = << currentEvent, activeNotificationEvent, dismissedEvents, isRinging,
                      notificationTimeout, timeoutTimers >> ]_vars

\* a cycle found B ringable while A's notification was active and called nothing
C17_Witness ==
  /\ last.op = "pollResolve"
  /\ last.arg = "B"
  /\ last.was = "A"
  /\ last.calls = <<>>
  /\ currentEvent.objectId = "A"

\* the second of its minute at which a timer set at second probe.seconds with the
\* computed delay fires, and how many minutes later
FireSecond == ((probe.seconds * 1000 + probe.result) % 60000) \div 1000
FireMinute == (probe.seconds * 1000 + probe.result) \div 60000

\* C18: the scheduler started at second 47 of a minute sets its first timer to
\* fire at second 30 of the next minute, not at second 0 of the next minute.
C18_At47FiresAtHalfMinute ==
  (probe.kind = "pollDelay" /\ probe.done /\ probe.seconds = 47) =>
    (FireMinute = 1 /\ FireSecond = 30)

\* C18 as amended: the scheduler started at second 47 sets its first timer 13 s
\* ahead, to second 0 of the next minute: 13 s is not under the 10 s threshold.
C18_At47FiresAtFullMinute ==
  (probe.kind = "pollDelay" /\ probe.done /\ probe.seconds = 47) =>
    (probe.result = 13000 /\ FireMinute = 1 /\ FireSecond = 0)

\* the delay for second 47 has been computed
C18_Witness ==
  /\ probe.kind = "pollDelay" /\ probe.done
  /\ probe.seconds = 47
  /\ probe.result = 13000

\* C19: for every second s in 0..59 the timer fires on a :00 or :30 mark: the
\* first mark after s when that is 10 s or more away, else the mark 30 s after
\* it; the delay lies between 10 and 39 seconds.
C19_AlignedDelay ==
  (probe.kind = "pollDelay" /\ probe.done) =>
    LET s == probe.seconds
        firstMark == CHOOSE m \in {30, 60} : m > s /\ \A n \in {30, 60} : n > s => m <= n
        mark == IF firstMark - s >= 10 THEN firstMark ELSE firstMark + 30
    IN  /\ FireSecond \in {0, 30}
        /\ probe.result = (mark - s) * 1000
        /\ probe.result >= 10000 /\ probe.result <= 39000

\* a delay under 10 s was skipped forward: second 21 waits 39 s
C19_Witness ==
  /\ probe.kind = "pollDelay" /\ probe.done
  /\ probe.seconds = 21
  /\ probe.result = 39000

\* C20: startMonitoring while monitoring is active (started, its timer pending)
\* is a no-op: no poll cycle is started and the one pending poll timer stays.
C20_StartIsIdempotent ==
  [][ (last'.op = "startMonitoring" /\ isActivelyRunning /\ pollingIntervalId /= 0) =>
        /\ fetches' = fetches
        /\ pollTimers' = pollTimers
        /\ pollingIntervalId' = pollingIntervalId
        /\ pollTimers' = {pollingIntervalId'}
        /\ isActivelyRunning' ]_vars

\* startMonitoring returned with a token set and started no poll cycle: the
\* monitor was active already
C20_Witness ==
  /\ last.op = "startMonitoring"
  /\ authToken
  /\ fetches = <<>>
  /\ isActivelyRunning
  /\ pollTimers = {pollingIntervalId}

\* C21: stopMonitoring leaves no poll timer pending, and while none is pending
\* only startMonitoring sets a timer or starts a poll cycle.
C21_StopCancelsPolling ==
  /\ [](pollingIntervalId = 0 => pollTimers = {})
  /\ [][ /\ last'.op = "stopMonitoring" =>
              pollTimers' = {} /\ pollingIntervalId' = 0
         /\ (pollTimers = {} /\ (pollTimers' /= {} \/ Len(fetches') > Len(fetches)))
              => last'.op = "startMonitoring" ]_vars

\* stopMonitoring ran on an active monitor: its timer is gone
C21_Witness ==
  /\ last.op = "stopMonitoring"
  /\ isActivelyRunning
  /\ authToken
  /\ pollTimers = {}
  /\ pollingIntervalId = 0

\* the window the README documents: 2 minutes
DocumentedWindowMs == 2 * 60 * 1000

\* C22: while a notification for a meeting that starts at T is ringing, the time
\* is between T - 2 minutes and T + 2 minutes.
C22_RingsWithinTwoMinutes ==
  (currentEvent /= NoEvent /\ isRinging) =>
    /\ now >= currentEvent.startTime - DocumentedWindowMs
    /\ now <= currentEvent.startTime + DocumentedWindowMs

\* C23: a delivered token leaves polling scheduled, a delivered null token and a
\* disconnect leave it not scheduled.
C23_PollingFollowsToken ==
  [][ /\ (last'.op = "authTokenUpdated" /\ last'.arg = "token") => pollTimers' /= {}
      /\ (last'.op = "authTokenUpdated" /\ last'.arg = "null") => pollTimers' = {}
      /\ last'.op = "portDisconnected" => pollTimers' = {} ]_vars

\* C24: once the manager is disposed, the function its constructor subscribed is
\* not in the DomWatcher's subscriber set, and no DOM change runs onDomChange
\* (which alone writes userIsJoiningOrInCall then).
C24_DisposeUnsubscribes ==
  /\ [](~ringtone => ~has(domWatcher.subscribers, Function("onDomChange", 1)))
  /\ [][ (~ringtone /\ ~ringtone') =>
           userIsJoiningOrInCall' = userIsJoiningOrInCall ]_vars

\* C25: every poll cycle in flight queries the range from now - 2 * afterWindow
\* to now + 2 * beforeWindow, and every meeting of the calendar that passes the
\* selector's window test at the cycle's now starts inside that range.
C25_QueryCoversRingable ==
  \A i \in 1..Len(fetches) :
    /\ fetches[i].query.startDate = fetches[i].query.now - 2 * NOTIFY_AFTER_EVENT_START_MS
    /\ fetches[i].query.endDate = fetches[i].query.now + 2 * NOTIFY_BEFORE_EVENT_START_MS
    /\ \A e \in Calendar :
         ~SkippedByWindow(e, fetches[i].query.now) =>
           /\ fetches[i].query.startDate <= e.startTime
           /\ e.startTime <= fetches[i].query.endDate

\* a cycle started two windows into the run is in flight: the meeting that began
\* one window before is still ringable and inside the queried range
C25_Witness ==
  /\ fetches /= <<>>
  /\ fetches[1].query.now = 2 * TickMs
  /\ \E e \in Calendar :
       /\ e.startTime < fetches[1].query.now
       /\ ~SkippedByWindow(e, fetches[1].query.now)
       /\ fetches[1].query.startDate <= e.startTime

\* C26: every pending insert retry waits the fixed interval and belongs to a
\* chain that has retried fewer than maxRetries times; a retry leaves the
\* ringtone and the notification as they are, and either ends the chain or
\* schedules the one next retry, and every chain ends.
C26_RetryChainBounded ==
  /\ [](\A i \in 1..Len(retryTimers) :
          /\ retryTimers[i].delay = retryInterval
          /\ retryTimers[i].retryCount < maxRetries)
  /\ [][ (retryTimers /= <<>> /\ retryTimers' /= retryTimers) =>
           /\ << howl', isRinging', currentEvent', notificationTimeout' >>
              = << howl, isRinging, currentEvent, notificationTimeout >>
           /\ \/ retryTimers' = <<>>
              \/ /\ Len(retryTimers') = 1
                 /\ retryTimers'[1].retryCount = retryTimers[1].retryCount + 1 ]_vars
  /\ [](retryTimers /= <<>> => <>(retryTimers = <<>>))

\* the fifth and last retry of a notification is pending while its ringtone plays
\* and its buttons are still not in the page
C26_Witness ==
  /\ retryTimers /= <<>>
  /\ retryTimers[1].retryCount = maxRetries - 1
  /\ currentEvent /= NoEvent
  /\ howl = "playing"
  /\ wrapper = "detached"

\* C27: the DomWatcher's observer is connected exactly when the subscriber set is
\* non-empty, and observerFactory has been called at most once.
C27_ObservingIffSubscribers ==
  /\ domWatcher.observing <=> Len(domWatcher.subscribers) > 0
  /\ domWatcher.created <= 1
  /\ domWatcher.mutationObserver <=> domWatcher.created = 1

\* the last subscriber has left a watcher whose observer exists: it is disconnected
C27_Witness ==
  /\ last.op = "unsubscribe"
  /\ domWatcher.subscribers = <<>>
  /\ domWatcher.mutationObserver
  /\ ~domWatcher.observing
  /\ pass = NoPass

\* C28: a mutation that arrives during a notification pass calls no subscriber
\* and leaves the pass as it is; a pass goes through its whole copy of the
\* subscriber set before it ends; when it ends, one further pass over the
\* current subscribers begins if any mutation arrived during it, however many,
\* and none otherwise.
C28_NoReentrantDelivery ==
  /\ [][ (last'.op = "mutation" /\ domWatcher.isProcessingNotifications) =>
           /\ pass'.todo = pass.todo
           /\ pass'.called = pass.called
           /\ domWatcher'.isProcessingNotifications
           /\ domWatcher'.hasPendingNotification ]_vars
  /\ [][ (domWatcher.isProcessingNotifications /\ pass.todo /= <<>>) =>
           /\ domWatcher'.isProcessingNotifications
           /\ pass'.todo \in {pass.todo, Tail(pass.todo)} ]_vars
  /\ [][ last'.op = "passEnd" =>
           IF pass.arrived > 0
             THEN /\ domWatcher'.isProcessingNotifications
                  /\ ~domWatcher'.hasPendingNotification
                  /\ pass'.todo = domWatcher'.subscribers
                  /\ pass'.called = <<>>
                  /\ pass'.arrived = 0
             ELSE /\ ~domWatcher'.isProcessingNotifications
                  /\ pass' = NoPass ]_vars

\* the further pass that followed a pass during which MaxArrivals mutations
\* arrived has called both subscribers and is at its end
C28_Witness ==
  /\ pass.further
  /\ pass.coalesced = MaxArrivals
  /\ pass.arrived = 0
  /\ pass.todo = <<>>
  /\ Len(pass.called) = 2
  /\ domWatcher.isProcessingNotifications

\* C29: whenever a pass calls a subscriber, that subscriber is in the subscriber
\* set at that moment: one that was unsubscribed, before the mutation or during
\* the pass, is passed over.
C29_UnsubscribedNotCalled ==
  [][ pass'.called /= pass.called /\ pass'.called /= <<>> =>
        /\ Len(pass'.called) = Len(pass.called) + 1
        /\ has(domWatcher.subscribers, pass'.called[Len(pass'.called)])
        /\ last'.op = "notify" ]_vars

\* a pass has called one subscriber and passed over the next of its copy, which
\* was unsubscribed meanwhile
C29_Witness ==
  /\ last.op = "skip"
  /\ Len(pass.called) = 1
  /\ ~has(domWatcher.subscribers, Function(last.arg, 0))
  /\ domWatcher.isProcessingNotifications

\* C30: while a meeting inside its ringable window is ringing and every poll
\* cycle in flight began before its notification did, the answer of such a cycle
\* neither ends the notification nor changes the Dismissed Set.
C30_StaleCycleCannotStopRing ==
  [][ ( /\ last'.op = "pollResolve"
        /\ currentEvent /= NoEvent
        /\ isRinging
        /\ ~SkippedByWindow(currentEvent, now)
        /\ \A i \in 1..Len(fetches) : fetches[i].stale )
      => /\ currentEvent' = currentEvent
         /\ isRinging'
         /\ dismissedEvents' = dismissedEvents ]_vars

\* C31: the answer of a fetch that arrives right after stopMonitoring returned
\* calls no listener and starts no notification.
C31_NoCallbackAfterStop ==
  [][ (last.op = "stopMonitoring" /\ last'.op = "pollResolve") =>
        /\ last'.callback = "none"
        /\ ~last'.ring
        /\ currentEvent' = currentEvent ]_vars

\* C32: a poll cycle whose earliest ringable meeting is in the Dismissed Set
\* starts no notification, whatever else its candidates hold.
C32_DismissedEarliestBlocks ==
  [][ ( /\ last'.op = "pollResolve"
        /\ last'.arg /= "null"
        /\ last'.arg \in dismissedEvents )
      => /\ ~last'.ring
         /\ currentEvent' = currentEvent
         /\ isRinging' = isRinging ]_vars

\* a cycle selected the dismissed A while B, not dismissed, is inside its window
\* too: nothing rings
C32_Witness ==
  /\ last.op = "pollResolve"
  /\ last.arg = "A"
  /\ last.callback = "onUpcomingMeeting"
  /\ "A" \in dismissedEvents
  /\ "B" \notin dismissedEvents
  /\ \E e \in Calendar : e.objectId = "B" /\ ~SkippedByWindow(e, now)
  /\ currentEvent = NoEvent
  /\ ~isRinging

\* C33: the dismiss/join affordance is in the page only while a notification
\* is active; a retry left pending by an ended notification does not add it back.
C33_ButtonsOnlyWhileNotifying ==
  dismissButtonInDocument(World) => currentEvent /= NoEvent

\* C34: for fixed candidates, once the selector returned M at a time t it returns
\* M at every later time at which M is still inside its window.
C34_NoFlapping ==
  ( /\ probe.kind = "getEarliestRingableEventLater"
    /\ probe.earlier.result /= NoEvent
    /\ ~SkippedByWindow(probe.earlier.result, probe.now) )
  => probe.result = probe.earlier.result

\* P was selected at the start of its window; a window later R, listed before P,
\* is inside its window too, and P is selected again
C34_Witness ==
  /\ probe.kind = "getEarliestRingableEventLater"
  /\ probe.earlier.result.objectId = "P"
  /\ probe.result.objectId = "P"
  /\ Len(probe.proximalEvents) >= 2
  /\ probe.proximalEvents[1].objectId = "R"
  /\ SkippedByWindow(probe.proximalEvents[1], probe.earlier.now)
  /\ ~SkippedByWindow(probe.proximalEvents[1], probe.now)

\* C35: with the NotificationManager as the only listener, the monitor's
\* activeNotificationEvent is non-null exactly when the manager's currentEvent
\* is non-null, and both are the same meeting.
C35_ActiveMatchesCurrent ==
  activeNotificationEvent = currentEvent

\* a notification that a poll cycle started has ended by its timeout: both
\* references were set to the meeting and both are null again
C35_Witness ==
  /\ last.op = "timeout"
  /\ last.was /= "null"
  /\ currentEvent = NoEvent
  /\ activeNotificationEvent = NoEvent
  /\ dismissedEvents /= {}

\* C36: after any sequence of startMonitoring, stopMonitoring and timer firings
\* at most one poll timer is pending, the one pollingIntervalId remembers.
C36_AtMostOnePollTimer ==
  /\ Cardinality(pollTimers) <= 1
  /\ pollTimers /= {} => pollTimers = {pollingIntervalId}

\* a notification has come and gone, a later firing of the poll timer started
\* the cycle in flight and set the one timer pending
C36_Witness ==
  /\ Cardinality(pollTimers) = 1
  /\ Len(fetches) = 1
  /\ fetches[1].query.now > 0
  /\ dismissedEvents /= {}
  /\ isActivelyRunning

\* C37: at most one auto-timeout timer is pending and it is the one of the
\* current notification; no timer of an earlier notification is left to fire.
C37_OneTimeoutTimerOfCurrent ==
  /\ Cardinality(timeoutTimers) <= 1
  /\ \A t \in timeoutTimers :
       /\ currentEvent /= NoEvent
       /\ t.id = notificationTimeout
       /\ t.due = currentEvent.startTime + NOTIFY_AFTER_EVENT_START_MS

\* the notification of A ended before its timeout and B is notifying: the one
\* pending timer is B's
C37_Witness ==
  /\ currentEvent.objectId = "B"
  /\ "A" \in dismissedEvents
  /\ dismissHistory["A"] /= "timedOut"
  /\ Cardinality(timeoutTimers) = 1
  /\ \A t \in timeoutTimers : t.id = notificationTimeout

\* the n-th delay a reconnection chain has to use
BackoffDelay(pm, n) ==
  IF pm.reconnectBaseDelayMs * 2 ^ (n - 1) < pm.maxReconnectDelayMs
    THEN pm.reconnectBaseDelayMs * 2 ^ (n - 1)
    ELSE pm.maxReconnectDelayMs

\* what holds of a reconnection chain at every step
C38_ChainShape ==
  LET pm == portManager
      c == pm.chain
  IN  /\ \A n \in 1..Len(c.delays) : c.delays[n] = BackoffDelay(pm, n)
      /\ c.attempts <= pm.maxReconnectAttempts
      /\ Len(c.delays) <= pm.maxReconnectAttempts
      /\ c.failed <= 1
      /\ c.failed = 1 =>
           /\ c.attempts = pm.maxReconnectAttempts
           /\ Len(c.delays) = pm.maxReconnectAttempts
           /\ pm.timers = {}
           /\ pm.reconnectTimeout = 0
      /\ Cardinality(pm.timers) <= 1
      /\ pm.port => pm.reconnectAttempt = 0

\* the port is down, auto-reconnect is on and the manager is in use
C38_Reconnecting ==
  /\ ~portManager.port
  /\ portManager.chain.from = "disconnect"
  /\ portManager.autoReconnect
  /\ portManager.eventHandlers

\* C38: from a disconnect with auto-reconnect on, the n-th reconnect timer has
\* the delay min(base * 2^(n-1), maxReconnectDelayMs); when every attempt fails
\* there are exactly maxReconnectAttempts attempts, then RECONNECTION_FAILED is
\* emitted once and no reconnect timer is pending; a connect that succeeds sets
\* the attempt count to 0.
C38_ReconnectBackoff ==
  /\ []C38_ChainShape
  /\ C38_Reconnecting ~>
       \/ portManager.port
       \/ portManager.chain.failed = 1
       \/ ~portManager.eventHandlers

\* with the default options, ten attempts after a disconnect have failed, the
\* last three of them at the capped delay, and the manager has given up
C38_Witness ==
  /\ portManager.chain.from = "disconnect"
  /\ portManager.maxReconnectAttempts = 10
  /\ portManager.maxReconnectDelayMs = 2 * 60 * 1000
  /\ portManager.chain.attempts = 10
  /\ portManager.chain.failed = 1
  /\ portManager.chain.delays[7] = 64000
  /\ portManager.chain.delays[8] = 120000
  /\ portManager.chain.delays[10] = 120000
  /\ portManager.emitted = << [type |-> "reconnection_failed", data |-> NoData] >>
  /\ portManager.timers = {}

\* C39: on every start, now and non-negative (before, after), the selector's
\* window test skips the candidate exactly when isInRingWindow is false.
C39_WindowTestsAgree ==
  (probe.kind = "windowTests" /\ probe.done) => (probe.skipped <=> ~probe.result)

====
